---------------------------- MODULE Spec2Model ----------------------------
(***************************************************************************)
(* The prompt library MCP agent (class PromptLibraryMCP): its catalog       *)
(* promptLibrary, the initialisation init() / loadPrompts(), and the five   *)
(* tools get_categories, get_prompts_by_category, get_prompt,               *)
(* combine_prompts and search_prompts.                                      *)
(*                                                                         *)
(* A JavaScript string is a sequence of one-character strings, so that      *)
(* toLowerCase, includes, join, substring and the regular expression of     *)
(* search_prompts are computed character by character.                      *)
(***************************************************************************)
EXTENDS Integers, Sequences, FiniteSets, TLC

(* Bounds of the inputs the tool calls are drawn from. *)
MaxKeywordLen == 2

MaxCategories == 2

(* The longest body the snippets are taken of. *)
MaxBodyLen == 250

(***************************************************************************)
(* String literals of the source.  The five prompt bodies of prompt.ts are  *)
(* long markdown texts; each is represented by its opening: the heading     *)
(* line, the blank line and the first sentence.                             *)
(***************************************************************************)
react ==
  <<"r", "e", "a", "c", "t">>

fe ==
  <<"f", "e">>

common ==
  <<"c", "o", "m", "m", "o", "n">>

componentCreation ==
  <<"c", "o", "m", "p", "o", "n", "e", "n", "t", "-", "c", "r", "e", "a", "t", "i", "o",
    "n">>

stateManagement ==
  <<"s", "t", "a", "t", "e", "-", "m", "a", "n", "a", "g", "e", "m", "e", "n", "t">>

performanceOptimization ==
  <<"p", "e", "r", "f", "o", "r", "m", "a", "n", "c", "e", "-", "o", "p", "t", "i", "m",
    "i", "z", "a", "t", "i", "o", "n">>

accessibility ==
  <<"a", "c", "c", "e", "s", "s", "i", "b", "i", "l", "i", "t", "y">>

codeQuality ==
  <<"c", "o", "d", "e", "-", "q", "u", "a", "l", "i", "t", "y">>

componentCreationPrompt ==
  <<"#", " ", "R", "e", "a", "c", "t", " ", "C", "o", "m", "p", "o", "n", "e", "n", "t",
    " ", "C", "r", "e", "a", "t", "i", "o", "n", "\n", "\n", "Y", "o", "u", " ", "a", "r",
    "e", " ", "a", "n", " ", "e", "x", "p", "e", "r", "t", " ", "R", "e", "a", "c", "t",
    " ", "d", "e", "v", "e", "l", "o", "p", "e", "r", ".">>

stateManagementPrompt ==
  <<"#", " ", "R", "e", "a", "c", "t", " ", "S", "t", "a", "t", "e", " ", "M", "a", "n",
    "a", "g", "e", "m", "e", "n", "t", "\n", "\n", "Y", "o", "u", " ", "a", "r", "e", " ",
    "a", "n", " ", "e", "x", "p", "e", "r", "t", " ", "i", "n", " ", "R", "e", "a", "c",
    "t", " ", "s", "t", "a", "t", "e", " ", "m", "a", "n", "a", "g", "e", "m", "e", "n",
    "t", ".">>

performanceOptimizationPrompt ==
  <<"#", " ", "F", "r", "o", "n", "t", "e", "n", "d", " ", "P", "e", "r", "f", "o", "r",
    "m", "a", "n", "c", "e", " ", "O", "p", "t", "i", "m", "i", "z", "a", "t", "i", "o",
    "n", "\n", "\n", "Y", "o", "u", " ", "a", "r", "e", " ", "a", "n", " ", "e", "x", "p",
    "e", "r", "t", " ", "i", "n", " ", "f", "r", "o", "n", "t", "e", "n", "d", " ", "p",
    "e", "r", "f", "o", "r", "m", "a", "n", "c", "e", " ", "o", "p", "t", "i", "m", "i",
    "z", "a", "t", "i", "o", "n", ".">>

accessibilityPrompt ==
  <<"#", " ", "F", "r", "o", "n", "t", "e", "n", "d", " ", "A", "c", "c", "e", "s", "s",
    "i", "b", "i", "l", "i", "t", "y", " ", "(", "A", "1", "1", "y", ")", "\n", "\n", "Y",
    "o", "u", " ", "a", "r", "e", " ", "a", "n", " ", "e", "x", "p", "e", "r", "t", " ",
    "i", "n", " ", "w", "e", "b", " ", "a", "c", "c", "e", "s", "s", "i", "b", "i", "l",
    "i", "t", "y", ".">>

codeQualityPrompt ==
  <<"#", " ", "C", "o", "d", "e", " ", "Q", "u", "a", "l", "i", "t", "y", " ", "a", "n",
    "d", " ", "B", "e", "s", "t", " ", "P", "r", "a", "c", "t", "i", "c", "e", "s", "\n",
    "\n", "Y", "o", "u", " ", "a", "r", "e", " ", "a", "n", " ", "e", "x", "p", "e", "r",
    "t", " ", "s", "o", "f", "t", "w", "a", "r", "e", " ", "d", "e", "v", "e", "l", "o",
    "p", "e", "r", " ", "f", "o", "c", "u", "s", "e", "d", " ", "o", "n", " ", "c", "o",
    "d", "e", " ", "q", "u", "a", "l", "i", "t", "y", ".">>

(* The backquote character, which no string of this module can hold. *)
Backquote == "backquote"

(* The opening 256 characters of the five bodies, the escaped backquotes of
   the template literals read as the backquotes they stand for. *)
componentCreationPromptOpening ==
  <<"#", " ", "R", "e", "a", "c", "t", " ", "C", "o", "m", "p", "o", "n", "e", "n", "t",
    " ", "C", "r", "e", "a", "t", "i", "o", "n", "\n", "\n", "Y", "o", "u", " ", "a", "r",
    "e", " ", "a", "n", " ", "e", "x", "p", "e", "r", "t", " ", "R", "e", "a", "c", "t",
    " ", "d", "e", "v", "e", "l", "o", "p", "e", "r", ".", " ", "W", "h", "e", "n", " ",
    "c", "r", "e", "a", "t", "i", "n", "g", " ", "R", "e", "a", "c", "t", " ", "c", "o",
    "m", "p", "o", "n", "e", "n", "t", "s", ":", "\n", "\n", "#", "#", " ", "G", "u", "i",
    "d", "e", "l", "i", "n", "e", "s", ":", "\n", "-", " ", "U", "s", "e", " ", "f", "u",
    "n", "c", "t", "i", "o", "n", "a", "l", " ", "c", "o", "m", "p", "o", "n", "e", "n",
    "t", "s", " ", "w", "i", "t", "h", " ", "h", "o", "o", "k", "s", "\n", "-", " ", "F",
    "o", "l", "l", "o", "w", " ", "T", "y", "p", "e", "S", "c", "r", "i", "p", "t", " ",
    "b", "e", "s", "t", " ", "p", "r", "a", "c", "t", "i", "c", "e", "s", "\n", "-", " ",
    "I", "m", "p", "l", "e", "m", "e", "n", "t", " ", "p", "r", "o", "p", "e", "r", " ",
    "p", "r", "o", "p", " ", "v", "a", "l", "i", "d", "a", "t", "i", "o", "n", " ", "w",
    "i", "t", "h", " ", "T", "y", "p", "e", "S", "c", "r", "i", "p", "t", " ", "i", "n",
    "t", "e", "r", "f", "a", "c", "e", "s", "\n", "-", " ", "U", "s", "e", " ", "d", "e",
    "s">>

stateManagementPromptOpening ==
  <<"#", " ", "R", "e", "a", "c", "t", " ", "S", "t", "a", "t", "e", " ", "M", "a", "n",
    "a", "g", "e", "m", "e", "n", "t", "\n", "\n", "Y", "o", "u", " ", "a", "r", "e", " ",
    "a", "n", " ", "e", "x", "p", "e", "r", "t", " ", "i", "n", " ", "R", "e", "a", "c",
    "t", " ", "s", "t", "a", "t", "e", " ", "m", "a", "n", "a", "g", "e", "m", "e", "n",
    "t", ".", " ", "W", "h", "e", "n", " ", "w", "o", "r", "k", "i", "n", "g", " ", "w",
    "i", "t", "h", " ", "s", "t", "a", "t", "e", ":", "\n", "\n", "#", "#", " ", "S", "t",
    "a", "t", "e", " ", "M", "a", "n", "a", "g", "e", "m", "e", "n", "t", " ", "G", "u",
    "i", "d", "e", "l", "i", "n", "e", "s", ":", "\n", "-", " ", "U", "s", "e", " ", Backquote,
    "u", "s", "e", "S", "t", "a", "t", "e", Backquote, " ", "f", "o", "r", " ", "l", "o", "c",
    "a", "l", " ", "c", "o", "m", "p", "o", "n", "e", "n", "t", " ", "s", "t", "a", "t",
    "e", "\n", "-", " ", "U", "s", "e", " ", Backquote, "u", "s", "e", "R", "e", "d", "u", "c",
    "e", "r", Backquote, " ", "f", "o", "r", " ", "c", "o", "m", "p", "l", "e", "x", " ", "s",
    "t", "a", "t", "e", " ", "l", "o", "g", "i", "c", "\n", "-", " ", "U", "s", "e", " ",
    Backquote, "u", "s", "e", "C", "o", "n", "t", "e", "x", "t", Backquote, " ", "f", "o", "r", " ",
    "s", "h", "a", "r", "e", "d", " ", "s", "t", "a", "t", "e", " ", "a", "c", "r", "o",
    "s">>

performanceOptimizationPromptOpening ==
  <<"#", " ", "F", "r", "o", "n", "t", "e", "n", "d", " ", "P", "e", "r", "f", "o", "r",
    "m", "a", "n", "c", "e", " ", "O", "p", "t", "i", "m", "i", "z", "a", "t", "i", "o",
    "n", "\n", "\n", "Y", "o", "u", " ", "a", "r", "e", " ", "a", "n", " ", "e", "x", "p",
    "e", "r", "t", " ", "i", "n", " ", "f", "r", "o", "n", "t", "e", "n", "d", " ", "p",
    "e", "r", "f", "o", "r", "m", "a", "n", "c", "e", " ", "o", "p", "t", "i", "m", "i",
    "z", "a", "t", "i", "o", "n", ".", " ", "W", "h", "e", "n", " ", "o", "p", "t", "i",
    "m", "i", "z", "i", "n", "g", " ", "w", "e", "b", " ", "a", "p", "p", "l", "i", "c",
    "a", "t", "i", "o", "n", "s", ":", "\n", "\n", "#", "#", " ", "C", "o", "r", "e", " ",
    "W", "e", "b", " ", "V", "i", "t", "a", "l", "s", ":", "\n", "-", " ", "*", "*", "L",
    "a", "r", "g", "e", "s", "t", " ", "C", "o", "n", "t", "e", "n", "t", "f", "u", "l",
    " ", "P", "a", "i", "n", "t", " ", "(", "L", "C", "P", ")", "*", "*", ":", " ", "<",
    " ", "2", ".", "5", "s", "\n", "-", " ", "*", "*", "F", "i", "r", "s", "t", " ", "I",
    "n", "p", "u", "t", " ", "D", "e", "l", "a", "y", " ", "(", "F", "I", "D", ")", "*",
    "*", ":", " ", "<", " ", "1", "0", "0", "m", "s", "\n", "-", " ", "*", "*", "C", "u",
    "m", "u", "l", "a", "t", "i", "v", "e", " ", "L", "a", "y", "o", "u", "t", " ", "S",
    "h">>

accessibilityPromptOpening ==
  <<"#", " ", "F", "r", "o", "n", "t", "e", "n", "d", " ", "A", "c", "c", "e", "s", "s",
    "i", "b", "i", "l", "i", "t", "y", " ", "(", "A", "1", "1", "y", ")", "\n", "\n", "Y",
    "o", "u", " ", "a", "r", "e", " ", "a", "n", " ", "e", "x", "p", "e", "r", "t", " ",
    "i", "n", " ", "w", "e", "b", " ", "a", "c", "c", "e", "s", "s", "i", "b", "i", "l",
    "i", "t", "y", ".", " ", "W", "h", "e", "n", " ", "d", "e", "v", "e", "l", "o", "p",
    "i", "n", "g", " ", "a", "c", "c", "e", "s", "s", "i", "b", "l", "e", " ", "w", "e",
    "b", " ", "a", "p", "p", "l", "i", "c", "a", "t", "i", "o", "n", "s", ":", "\n", "\n",
    "#", "#", " ", "W", "C", "A", "G", " ", "2", ".", "1", " ", "G", "u", "i", "d", "e",
    "l", "i", "n", "e", "s", ":", "\n", "-", " ", "*", "*", "P", "e", "r", "c", "e", "i",
    "v", "a", "b", "l", "e", "*", "*", ":", " ", "I", "n", "f", "o", "r", "m", "a", "t",
    "i", "o", "n", " ", "m", "u", "s", "t", " ", "b", "e", " ", "p", "r", "e", "s", "e",
    "n", "t", "a", "b", "l", "e", " ", "i", "n", " ", "w", "a", "y", "s", " ", "u", "s",
    "e", "r", "s", " ", "c", "a", "n", " ", "p", "e", "r", "c", "e", "i", "v", "e", "\n",
    "-", " ", "*", "*", "O", "p", "e", "r", "a", "b", "l", "e", "*", "*", ":", " ", "I",
    "n", "t", "e", "r", "f", "a", "c", "e", " ", "c", "o", "m", "p", "o", "n", "e", "n",
    "t">>

codeQualityPromptOpening ==
  <<"#", " ", "C", "o", "d", "e", " ", "Q", "u", "a", "l", "i", "t", "y", " ", "a", "n",
    "d", " ", "B", "e", "s", "t", " ", "P", "r", "a", "c", "t", "i", "c", "e", "s", "\n",
    "\n", "Y", "o", "u", " ", "a", "r", "e", " ", "a", "n", " ", "e", "x", "p", "e", "r",
    "t", " ", "s", "o", "f", "t", "w", "a", "r", "e", " ", "d", "e", "v", "e", "l", "o",
    "p", "e", "r", " ", "f", "o", "c", "u", "s", "e", "d", " ", "o", "n", " ", "c", "o",
    "d", "e", " ", "q", "u", "a", "l", "i", "t", "y", ".", " ", "W", "h", "e", "n", " ",
    "w", "r", "i", "t", "i", "n", "g", " ", "a", "n", "d", " ", "r", "e", "v", "i", "e",
    "w", "i", "n", "g", " ", "c", "o", "d", "e", ":", "\n", "\n", "#", "#", " ", "C", "o",
    "d", "e", " ", "Q", "u", "a", "l", "i", "t", "y", " ", "P", "r", "i", "n", "c", "i",
    "p", "l", "e", "s", ":", "\n", "\n", "#", "#", "#", " ", "C", "l", "e", "a", "n", " ",
    "C", "o", "d", "e", ":", "\n", "-", " ", "W", "r", "i", "t", "e", " ", "s", "e", "l",
    "f", "-", "d", "o", "c", "u", "m", "e", "n", "t", "i", "n", "g", " ", "c", "o", "d",
    "e", " ", "w", "i", "t", "h", " ", "c", "l", "e", "a", "r", " ", "v", "a", "r", "i",
    "a", "b", "l", "e", " ", "a", "n", "d", " ", "f", "u", "n", "c", "t", "i", "o", "n",
    " ", "n", "a", "m", "e", "s", "\n", "-", " ", "K", "e", "e", "p", " ", "f", "u", "n",
    "c">>

CategoriesDescription ==
  <<"A", "v", "a", "i", "l", "a", "b", "l", "e", " ", "p", "r", "o", "m", "p", "t", " ",
    "c", "a", "t", "e", "g", "o", "r", "i", "e", "s", " ", "i", "n", " ", "t", "h", "e",
    " ", "l", "i", "b", "r", "a", "r", "y">>

ErrorCategoryPrefix ==
  <<"E", "r", "r", "o", "r", ":", " ", "C", "a", "t", "e", "g", "o", "r", "y", " ", "'">>

NotFoundSuffix ==
  <<"'", " ", "n", "o", "t", " ", "f", "o", "u", "n", "d">>

ErrorPromptPrefix ==
  <<"E", "r", "r", "o", "r", ":", " ", "P", "r", "o", "m", "p", "t", " ", "'">>

NotFoundInCategory ==
  <<"'", " ", "n", "o", "t", " ", "f", "o", "u", "n", "d", " ", "i", "n", " ", "c", "a",
    "t", "e", "g", "o", "r", "y", " ", "'">>

Quote ==
  <<"'">>

ErrorRetrievingPromptsPrefix ==
  <<"E", "r", "r", "o", "r", " ", "r", "e", "t", "r", "i", "e", "v", "i", "n", "g", " ",
    "p", "r", "o", "m", "p", "t", "s", " ", "f", "o", "r", " ", "c", "a", "t", "e", "g",
    "o", "r", "y", " ", "'">>

ErrorRetrievingPromptPrefix ==
  <<"E", "r", "r", "o", "r", " ", "r", "e", "t", "r", "i", "e", "v", "i", "n", "g", " ",
    "p", "r", "o", "m", "p", "t", " ", "'">>

FromCategory ==
  <<"'", " ", "f", "r", "o", "m", " ", "c", "a", "t", "e", "g", "o", "r", "y", " ", "'">>

QuoteColon ==
  <<"'", ":", " ">>

CategoryHeader ==
  <<"#", " ", "C", "a", "t", "e", "g", "o", "r", "y", ":", " ">>

PromptHeader ==
  <<"\n", "#", " ", "P", "r", "o", "m", "p", "t", ":", " ">>

BlankLine ==
  <<"\n", "\n">>

NoPromptsFound ==
  <<"N", "o", " ", "p", "r", "o", "m", "p", "t", "s", " ", "f", "o", "u", "n", "d", " ",
    "f", "o", "r", " ", "t", "h", "e", " ", "s", "p", "e", "c", "i", "f", "i", "e", "d",
    " ", "c", "a", "t", "e", "g", "o", "r", "i", "e", "s">>

ErrorCombiningPrefix ==
  <<"E", "r", "r", "o", "r", " ", "c", "o", "m", "b", "i", "n", "i", "n", "g", " ", "p",
    "r", "o", "m", "p", "t", "s", ":", " ">>

ErrorSearchingPrefix ==
  <<"E", "r", "r", "o", "r", " ", "s", "e", "a", "r", "c", "h", "i", "n", "g", " ", "p",
    "r", "o", "m", "p", "t", "s", ":", " ">>

DefaultSeparator ==
  <<"\n", "\n", "-", "-", "-", "\n", "\n">>

Ellipsis ==
  <<".", ".", ".">>

hooks ==
  <<"h", "o", "o", "k", "s">>

AccessibilityCapital ==
  <<"A", "c", "c", "e", "s", "s", "i", "b", "i", "l", "i", "t", "y">>

constructor ==
  <<"c", "o", "n", "s", "t", "r", "u", "c", "t", "o", "r">>

toString ==
  <<"t", "o", "S", "t", "r", "i", "n", "g">>

(***************************************************************************)
(* JavaScript values and the string and object operations the tools use.   *)
(***************************************************************************)
Undefined == [jstype |-> "undefined"]

JSString(s) == [jstype |-> "string", value |-> s]

JSArray(items) == [jstype |-> "array", items |-> items]

JSObject(entries) == [jstype |-> "object", entries |-> entries]

(* A member every object literal inherits from Object.prototype. *)
NativeMember(key) == [jstype |-> "native", member |-> key]

ObjectPrototypeKeys == {constructor, toString}

(* ToBoolean: undefined and the empty string are falsy, objects, arrays and
   functions are truthy. *)
Truthy(v) ==
  CASE v.jstype = "undefined" -> FALSE
    [] v.jstype = "string" -> v.value # <<>>
    [] OTHER -> TRUE

OwnIndex(obj, key) == {i \in 1..Len(obj.entries) : obj.entries[i].key = key}

(* obj[key]: an own property, else an inherited one, else undefined. *)
Get(obj, key) ==
  IF OwnIndex(obj, key) # {}
    THEN obj.entries[CHOOSE i \in OwnIndex(obj, key) : TRUE].value
    ELSE IF key \in ObjectPrototypeKeys THEN NativeMember(key) ELSE Undefined

(* Object.keys / Object.entries: own properties in insertion order. *)
ObjectKeys(obj) == [i \in 1..Len(obj.entries) |-> obj.entries[i].key]

ObjectEntries(obj) == obj.entries

UpperCaseLetters ==
  <<"A", "B", "C", "D", "E", "F", "G", "H", "I", "J", "K", "L", "M",
    "N", "O", "P", "Q", "R", "S", "T", "U", "V", "W", "X", "Y", "Z">>

LowerCaseLetters ==
  <<"a", "b", "c", "d", "e", "f", "g", "h", "i", "j", "k", "l", "m",
    "n", "o", "p", "q", "r", "s", "t", "u", "v", "w", "x", "y", "z">>

LowerCaseMap ==
  [c \in {UpperCaseLetters[i] : i \in 1..Len(UpperCaseLetters)} |->
     LowerCaseLetters[CHOOSE i \in 1..Len(UpperCaseLetters) : UpperCaseLetters[i] = c]]

UpperCaseMap ==
  [c \in {LowerCaseLetters[i] : i \in 1..Len(LowerCaseLetters)} |->
     UpperCaseLetters[CHOOSE i \in 1..Len(LowerCaseLetters) : LowerCaseLetters[i] = c]]

ToLowerCase(s) ==
  [i \in 1..Len(s) |-> IF s[i] \in DOMAIN LowerCaseMap THEN LowerCaseMap[s[i]] ELSE s[i]]

ToUpperCase(s) ==
  [i \in 1..Len(s) |-> IF s[i] \in DOMAIN UpperCaseMap THEN UpperCaseMap[s[i]] ELSE s[i]]

(* s.includes(sub) *)
Includes(s, sub) ==
  \E i \in 1..(Len(s) - Len(sub) + 1) : SubSeq(s, i, i + Len(sub) - 1) = sub

(* join leaving a separator behind every block, the last one too. *)
RECURSIVE JoinTrailing(_, _)
JoinTrailing(blocks, sep) ==
  IF blocks = <<>> THEN <<>>
  ELSE blocks[1] \o sep \o JoinTrailing(Tail(blocks), sep)

(* blocks.join(sep) *)
RECURSIVE Join(_, _)
Join(blocks, sep) ==
  IF blocks = <<>> THEN <<>>
  ELSE IF Len(blocks) = 1 THEN blocks[1]
  ELSE blocks[1] \o sep \o Join(Tail(blocks), sep)

(* s.substring(from, to), 0 <= from <= to *)
Substring(s, from, to) ==
  SubSeq(s, from + 1, IF to < Len(s) THEN to ELSE Len(s))

(***************************************************************************)
(* new RegExp(pattern, 'g') and text.match(regexp), for patterns over       *)
(* ordinary characters, "." (any character but a line terminator) and "("   *)
(* (which opens a group: with no ")" to close it the pattern is a           *)
(* SyntaxError).                                                            *)
(***************************************************************************)
LineTerminators == {"\n", "\r"}

RegExpIsValid(pattern) == \A i \in 1..Len(pattern) : pattern[i] # "("

(* The message of the SyntaxError is the engine's; it is kept opaque. *)
RegExpSyntaxError(pattern) ==
  [name |-> "SyntaxError", message |-> <<"Invalid regular expression">>]

RegExpMatchesAt(pattern, text, i) ==
  /\ i + Len(pattern) - 1 <= Len(text)
  /\ \A j \in 1..Len(pattern) :
       IF pattern[j] = "."
         THEN text[i + j - 1] \notin LineTerminators
         ELSE text[i + j - 1] = pattern[j]

(* The matches of a global regexp are taken left to right and do not
   overlap: after a match the scan resumes behind it (after an empty match,
   one character on).  RegExpScan scans the start positions from..to, the
   first `covered` of which lie inside an earlier match, and gives the
   number of matches found and how many positions beyond `to` the last one
   covers.  The range is halved so that the scan of a long text does not
   nest deeply. *)
RECURSIVE RegExpScan(_, _, _, _, _)
RegExpScan(pattern, text, from, to, covered) ==
  IF from > to THEN [count |-> 0, covered |-> covered]
  ELSE IF from = to THEN
    IF covered > 0 THEN [count |-> 0, covered |-> covered - 1]
    ELSE IF RegExpMatchesAt(pattern, text, from)
      THEN [count |-> 1,
            covered |-> (IF Len(pattern) = 0 THEN 1 ELSE Len(pattern)) - 1]
      ELSE [count |-> 0, covered |-> 0]
  ELSE
    LET mid == (from + to) \div 2
        left == RegExpScan(pattern, text, from, mid, covered)
        right == RegExpScan(pattern, text, mid + 1, to, left.covered)
    IN [count |-> left.count + right.count, covered |-> right.covered]

(* (text.match(new RegExp(pattern, 'g')) || []).length *)
RegExpMatchCount(pattern, text) ==
  RegExpScan(pattern, text, 1, Len(text) + 1, 0).count

(***************************************************************************)
(* The catalog.                                                            *)
(***************************************************************************)
PromptCategory == {react, fe, common}

(* private promptLibrary: PromptLibrary = {} *)
EmptyLibrary == JSObject(<<>>)

(* The object literal loadPrompts assigns. *)
FullLibrary ==
  JSObject(<<
    [key |-> react, value |-> JSObject(<<
       [key |-> componentCreation, value |-> JSString(componentCreationPrompt)],
       [key |-> stateManagement, value |-> JSString(stateManagementPrompt)]>>)],
    [key |-> fe, value |-> JSObject(<<
       [key |-> performanceOptimization,
        value |-> JSString(performanceOptimizationPrompt)],
       [key |-> accessibility, value |-> JSString(accessibilityPrompt)]>>)],
    [key |-> common, value |-> JSObject(<<
       [key |-> codeQuality, value |-> JSString(codeQualityPrompt)]>>)]>>)

(* The same object literal over bodies that are the first len[category]
   characters of the bodies of prompt.ts. *)
LibraryOfLengths(len) ==
  JSObject(<<
    [key |-> react, value |-> JSObject(<<
       [key |-> componentCreation,
        value |-> JSString(Substring(componentCreationPromptOpening, 0, len[react]))],
       [key |-> stateManagement,
        value |-> JSString(Substring(stateManagementPromptOpening, 0, len[react]))]>>)],
    [key |-> fe, value |-> JSObject(<<
       [key |-> performanceOptimization,
        value |-> JSString(Substring(performanceOptimizationPromptOpening, 0,
                                     len[fe]))],
       [key |-> accessibility,
        value |-> JSString(Substring(accessibilityPromptOpening, 0, len[fe]))]>>)],
    [key |-> common, value |-> JSObject(<<
       [key |-> codeQuality,
        value |-> JSString(Substring(codeQualityPromptOpening, 0, len[common]))]>>)]>>)

(***************************************************************************)
(* Results of a tool callback.                                              *)
(***************************************************************************)
(* { content: [ { type: "text", text } ] } *)
TextContent(text) == [content |-> <<[type |-> "text", text |-> text]>>]

(* JSON.stringify(value, null, 2): the string is represented by the value
   it encodes (strings as character sequences, numbers, arrays as
   sequences, objects as records). *)
JSONstringify(value) == [jstype |-> "string", json |-> value]

(* How the body of a try block ends. *)
Completed(value) == [threw |-> FALSE, value |-> value]

Thrown(error) == [threw |-> TRUE, error |-> error]

(* How the async callback ends: its promise resolves with a payload or
   rejects with the error that escaped it. *)
Resolved(payload) == [rejected |-> FALSE, payload |-> payload]

Rejected(error) == [rejected |-> TRUE, error |-> error]

(* error instanceof Error ? error.message : 'Unknown error' *)
ErrorMessage(error) == error.message

(***************************************************************************)
(* get_categories                                                          *)
(***************************************************************************)
(* get_categories listing the categories of the schema, not those of the
   catalog. *)
get_categories_of_schema(lib) ==
  Resolved(TextContent(JSONstringify(
    [categories |-> <<react, fe, common>>,
     description |-> CategoriesDescription])))

get_categories(lib) ==
  Resolved(TextContent(JSONstringify(
    [categories |-> ObjectKeys(lib), description |-> CategoriesDescription])))

(***************************************************************************)
(* get_prompts_by_category                                                 *)
(***************************************************************************)
CategoryNotFound(category) ==
  TextContent(JSString(ErrorCategoryPrefix \o category \o NotFoundSuffix))

get_prompts_by_category_try(lib, category) ==
  LET categoryPrompts == Get(lib, category) IN
  IF ~Truthy(categoryPrompts) THEN Completed(CategoryNotFound(category))
  ELSE
    LET names == ObjectKeys(categoryPrompts)
        promptList == [i \in 1..Len(names) |->
                         [name |-> names[i],
                          content |-> Get(categoryPrompts, names[i]).value]]
    IN Completed(TextContent(JSONstringify(
         [category |-> category, prompts |-> promptList,
          count |-> Len(promptList)])))

get_prompts_by_category(lib, category) ==
  LET r == get_prompts_by_category_try(lib, category) IN
  IF r.threw
    THEN Resolved(TextContent(JSString(
           ErrorRetrievingPromptsPrefix \o category \o QuoteColon
             \o ErrorMessage(r.error))))
    ELSE Resolved(r.value)

(***************************************************************************)
(* get_prompt                                                              *)
(***************************************************************************)
PromptNotFound(category, name) ==
  TextContent(JSString(
    ErrorPromptPrefix \o name \o NotFoundInCategory \o category \o Quote))

(* get_prompt handing the body back normalised to lower case. *)
get_prompt_try_normalised(lib, category, name) ==
  LET categoryPrompts == Get(lib, category) IN
  IF ~Truthy(categoryPrompts) THEN Completed(CategoryNotFound(category))
  ELSE
    LET prompt == Get(categoryPrompts, name) IN
    IF ~Truthy(prompt) THEN Completed(PromptNotFound(category, name))
    ELSE Completed(TextContent(
           IF prompt.jstype = "string" THEN JSString(ToLowerCase(prompt.value))
           ELSE prompt))

get_prompt_try(lib, category, name) ==
  LET categoryPrompts == Get(lib, category) IN
  IF ~Truthy(categoryPrompts) THEN Completed(CategoryNotFound(category))
  ELSE
    LET prompt == Get(categoryPrompts, name) IN
    IF ~Truthy(prompt) THEN Completed(PromptNotFound(category, name))
    ELSE Completed(TextContent(prompt))

get_prompt(lib, category, name) ==
  LET r == get_prompt_try(lib, category, name) IN
  IF r.threw
    THEN Resolved(TextContent(JSString(
           ErrorRetrievingPromptPrefix \o name \o FromCategory \o category
             \o QuoteColon \o ErrorMessage(r.error))))
    ELSE Resolved(r.value)

(***************************************************************************)
(* combine_prompts                                                         *)
(***************************************************************************)
(* The two nested loops over the categories and over the entries of each
   category that exists: the (category, name, content) triples visited. *)
RECURSIVE VisitedPrompts(_, _)
VisitedPrompts(lib, categories) ==
  IF categories = <<>> THEN <<>>
  ELSE
    LET category == Head(categories)
        categoryPrompts == Get(lib, category)
        here == IF Truthy(categoryPrompts)
                  THEN [i \in 1..Len(ObjectEntries(categoryPrompts)) |->
                          [category |-> category,
                           name |-> ObjectEntries(categoryPrompts)[i].key,
                           content |-> ObjectEntries(categoryPrompts)[i].value.value]]
                  ELSE <<>>
    IN here \o VisitedPrompts(lib, Tail(categories))

(* `# Category: ${category.toUpperCase()}\n# Prompt: ${name}\n\n${content}` *)
PromptBlock(category, name, content) ==
  CategoryHeader \o ToUpperCase(category) \o PromptHeader \o name
    \o BlankLine \o content

NothingFound == TextContent(JSString(NoPromptsFound))

(* combine_prompts without the test for an empty collection. *)
combine_prompts_try_unchecked(lib, categories, separator) ==
  LET visited == VisitedPrompts(lib, categories)
      combinedPrompts == [i \in 1..Len(visited) |->
                            PromptBlock(visited[i].category, visited[i].name,
                                        visited[i].content)]
      includedPrompts == [i \in 1..Len(visited) |->
                            [category |-> visited[i].category,
                             name |-> visited[i].name]]
  IN Completed(TextContent(JSONstringify(
       [combined_prompt |-> Join(combinedPrompts, separator),
        included_prompts |-> includedPrompts,
        total_prompts |-> Len(combinedPrompts),
        categories_processed |-> categories])))

(* combine_prompts visiting a category once, however often it is listed. *)
combine_prompts_try_distinct(lib, categories, separator) ==
  LET IsFirst(i) == \A j \in 1..(i - 1) : categories[j] # categories[i]
      firsts == {i \in 1..Len(categories) : IsFirst(i)}
      nth(k) == CHOOSE i \in firsts : Cardinality({j \in firsts : j < i}) = k - 1
      distinct == [k \in 1..Cardinality(firsts) |-> categories[nth(k)]]
      visited == VisitedPrompts(lib, distinct)
      combinedPrompts == [i \in 1..Len(visited) |->
                            PromptBlock(visited[i].category, visited[i].name,
                                        visited[i].content)]
      includedPrompts == [i \in 1..Len(visited) |->
                            [category |-> visited[i].category,
                             name |-> visited[i].name]]
  IN
  IF Len(combinedPrompts) = 0 THEN Completed(NothingFound)
  ELSE Completed(TextContent(JSONstringify(
         [combined_prompt |-> Join(combinedPrompts, separator),
          included_prompts |-> includedPrompts,
          total_prompts |-> Len(combinedPrompts),
          categories_processed |-> categories])))

combine_prompts_try(lib, categories, separator) ==
  LET visited == VisitedPrompts(lib, categories)
      combinedPrompts == [i \in 1..Len(visited) |->
                            PromptBlock(visited[i].category, visited[i].name,
                                        visited[i].content)]
      includedPrompts == [i \in 1..Len(visited) |->
                            [category |-> visited[i].category,
                             name |-> visited[i].name]]
  IN
  IF Len(combinedPrompts) = 0 THEN Completed(NothingFound)
  ELSE Completed(TextContent(JSONstringify(
         [combined_prompt |-> Join(combinedPrompts, separator),
          included_prompts |-> includedPrompts,
          total_prompts |-> Len(combinedPrompts),
          categories_processed |-> categories])))

combine_prompts(lib, categories, separator) ==
  LET r == combine_prompts_try(lib, categories, separator) IN
  IF r.threw
    THEN Resolved(TextContent(JSString(
           ErrorCombiningPrefix \o ErrorMessage(r.error))))
    ELSE Resolved(r.value)

(***************************************************************************)
(* search_prompts                                                          *)
(***************************************************************************)
NameMatchBonus == 10

SnippetLength == 200

(* lowerContent.includes(lowerKeyword) || lowerName.includes(lowerKeyword) *)
Matches(name, content, keyword) ==
  \/ Includes(ToLowerCase(content), ToLowerCase(keyword))
  \/ Includes(ToLowerCase(name), ToLowerCase(keyword))

(* The relevance of a prompt that matches, when the regular expression
   compiles. *)
Relevance(name, content, keyword) ==
  (IF Includes(ToLowerCase(name), ToLowerCase(keyword)) THEN NameMatchBonus ELSE 0)
    + RegExpMatchCount(ToLowerCase(keyword), ToLowerCase(content))

(* A sort that is not stable: an element goes in front of the elements of
   equal relevance that came before it. *)
RECURSIVE SortByRelevanceUnstable(_)
SortByRelevanceUnstable(results) ==
  IF results = <<>> THEN <<>>
  ELSE
    LET n == Len(results)
        last == results[n]
        front == SortByRelevanceUnstable(SubSeq(results, 1, n - 1))
        keep == {i \in 1..Len(front) : front[i].relevance > last.relevance}
        k == Cardinality(keep)
    IN SubSeq(front, 1, k) \o <<last>> \o SubSeq(front, k + 1, Len(front))

(* searchResults.sort((a, b) => b.relevance - a.relevance): Array.prototype
   .sort is stable. *)
RECURSIVE SortByRelevance(_)
SortByRelevance(results) ==
  IF results = <<>> THEN <<>>
  ELSE
    LET n == Len(results)
        last == results[n]
        front == SortByRelevance(SubSeq(results, 1, n - 1))
        keep == {i \in 1..Len(front) : front[i].relevance >= last.relevance}
        k == Cardinality(keep)
    IN SubSeq(front, 1, k) \o <<last>> \o SubSeq(front, k + 1, Len(front))

(* The snippet with the ellipsis from 200 characters on:
   content.length >= 200 ? '...' : '' *)
SnippetEllipsisFromLimit(content) ==
  Substring(content, 0, SnippetLength)
    \o (IF Len(content) >= SnippetLength THEN Ellipsis ELSE <<>>)

(* content.substring(0, 200) + (content.length > 200 ? '...' : '') *)
Snippet(content) ==
  Substring(content, 0, SnippetLength)
    \o (IF Len(content) > SnippetLength THEN Ellipsis ELSE <<>>)

search_prompts_try(lib, keyword, categories) ==
  LET searchCategories == IF Truthy(categories) THEN categories.items
                          ELSE ObjectKeys(lib)
      visited == VisitedPrompts(lib, searchCategories)
      IsMatch(p) == Matches(p.name, p.content, keyword)
      matched == SelectSeq(visited, IsMatch)
  IN
  IF matched # <<>> /\ ~RegExpIsValid(ToLowerCase(keyword))
    THEN Thrown(RegExpSyntaxError(ToLowerCase(keyword)))
  ELSE
    LET searchResults == [i \in 1..Len(matched) |->
                            [category |-> matched[i].category,
                             name |-> matched[i].name,
                             content |-> matched[i].content,
                             relevance |-> Relevance(matched[i].name,
                                                     matched[i].content, keyword)]]
        sorted == SortByRelevance(searchResults)
    IN Completed(TextContent(JSONstringify(
         [keyword |-> keyword,
          results |-> [i \in 1..Len(sorted) |->
                         [category |-> sorted[i].category,
                          name |-> sorted[i].name,
                          relevance |-> sorted[i].relevance,
                          snippet |-> Snippet(sorted[i].content)]],
          total_found |-> Len(sorted)])))

(* search_prompts with no catch block: what the try block throws escapes. *)
search_prompts_uncaught(lib, keyword, categories) ==
  LET r == search_prompts_try(lib, keyword, categories) IN
  IF r.threw THEN Rejected(r.error) ELSE Resolved(r.value)

search_prompts(lib, keyword, categories) ==
  LET r == search_prompts_try(lib, keyword, categories) IN
  IF r.threw
    THEN Resolved(TextContent(JSString(
           ErrorSearchingPrefix \o ErrorMessage(r.error))))
    ELSE Resolved(r.value)

(***************************************************************************)
(* The arguments the tool schemas admit.                                    *)
(***************************************************************************)
ToolNames ==
  {"get_categories", "get_prompts_by_category", "get_prompt",
   "combine_prompts", "search_prompts"}

(* The sequences over S of length at most n. *)
RECURSIVE SeqsUpTo(_, _)
SeqsUpTo(S, n) ==
  IF n = 0 THEN {<<>>}
  ELSE SeqsUpTo(S, n - 1)
         \cup {Append(s, x) : s \in SeqsUpTo(S, n - 1), x \in S}

(* z.array(z.enum(["react", "fe", "common"])) *)
CategoryLists == SeqsUpTo(PromptCategory, MaxCategories)

(* name: z.string() *)
NameInputs ==
  {componentCreation, stateManagement, performanceOptimization, accessibility,
   codeQuality, hooks, AccessibilityCapital, constructor, toString}

(* separator: z.string().optional() *)
SeparatorInputs == {Undefined, JSString(<<>>), JSString(<<"|">>)}

(* keyword: z.string() *)
KeywordChars == {"r", "E", ".", "("}

KeywordInputs == SeqsUpTo(KeywordChars, MaxKeywordLen)

(* categories: z.array(...).optional() *)
SearchCategoryInputs ==
  {Undefined} \cup {JSArray(l) : l \in CategoryLists}

(***************************************************************************)
(* State.                                                                  *)
(***************************************************************************)
VARIABLES
  promptLibrary,  \* this.promptLibrary
  initPc,         \* where init() is: "constructed", "loaded", "ready"
  tools,          \* the tools registered with the server
  request,        \* the tool call being answered, NoRequest when idle
  response        \* how its callback ended

vars == <<promptLibrary, initPc, tools, request, response>>

NoRequest == [tool |-> "none"]

NoResponse == [rejected |-> FALSE, payload |-> [content |-> <<>>]]

Init ==
  /\ promptLibrary = EmptyLibrary
  /\ initPc = "constructed"
  /\ tools = {}
  /\ request = NoRequest
  /\ response = NoResponse

(* await this.loadPrompts(): the try block assigns the object literal; the
   catch block falls back to the empty object. *)
LoadPrompts ==
  /\ initPc = "constructed"
  /\ \/ promptLibrary' = FullLibrary
     \/ promptLibrary' = EmptyLibrary
  /\ initPc' = "loaded"
  /\ UNCHANGED <<tools, request, response>>

(* The registrations with loadPrompts not awaited: they can come before the
   catalog is assigned. *)
RegisterToolsUnawaited ==
  /\ initPc \in {"constructed", "loaded"}
  /\ tools = {}
  /\ tools' = ToolNames
  /\ initPc' = IF initPc = "loaded" THEN "ready" ELSE initPc
  /\ UNCHANGED <<promptLibrary, request, response>>

(* The five this.server.tool(...) registrations that follow the await. *)
RegisterTools ==
  /\ initPc = "loaded"
  /\ tools' = ToolNames
  /\ initPc' = "ready"
  /\ UNCHANGED <<promptLibrary, request, response>>

CanCall(tool) == tool \in tools /\ request = NoRequest

Answer(req, res) ==
  /\ request' = req
  /\ response' = res
  /\ UNCHANGED <<promptLibrary, initPc, tools>>

CallGetCategories ==
  /\ CanCall("get_categories")
  /\ Answer([tool |-> "get_categories"], get_categories(promptLibrary))

(* get_prompts_by_category creating the category it does not find:
   this.promptLibrary[category] ??= {} *)
CallGetPromptsByCategoryCreating(category) ==
  /\ CanCall("get_prompts_by_category")
  /\ request' = [tool |-> "get_prompts_by_category", category |-> category]
  /\ response' = get_prompts_by_category(promptLibrary, category)
  /\ promptLibrary' =
       IF Truthy(Get(promptLibrary, category)) THEN promptLibrary
       ELSE JSObject(Append(promptLibrary.entries,
                            [key |-> category, value |-> JSObject(<<>>)]))
  /\ UNCHANGED <<initPc, tools>>

CallGetPromptsByCategory(category) ==
  /\ CanCall("get_prompts_by_category")
  /\ Answer([tool |-> "get_prompts_by_category", category |-> category],
            get_prompts_by_category(promptLibrary, category))

CallGetPrompt(category, name) ==
  /\ CanCall("get_prompt")
  /\ Answer([tool |-> "get_prompt", category |-> category, name |-> name],
            get_prompt(promptLibrary, category, name))

(* .default("\n\n---\n\n") *)
SeparatorOrDefault(separator) ==
  IF separator = Undefined THEN DefaultSeparator ELSE separator.value

CallCombinePrompts(categories, separator) ==
  /\ CanCall("combine_prompts")
  /\ Answer([tool |-> "combine_prompts", categories |-> categories,
             separator |-> separator],
            combine_prompts(promptLibrary, categories,
                            SeparatorOrDefault(separator)))

CallSearchPrompts(keyword, categories) ==
  /\ CanCall("search_prompts")
  /\ Answer([tool |-> "search_prompts", keyword |-> keyword,
             categories |-> categories],
            search_prompts(promptLibrary, keyword, categories))

(* The callback the server runs for a request. *)
Dispatch(lib, req) ==
  CASE req.tool = "get_categories" -> get_categories(lib)
    [] req.tool = "get_prompts_by_category" ->
         get_prompts_by_category(lib, req.category)
    [] req.tool = "get_prompt" -> get_prompt(lib, req.category, req.name)
    [] req.tool = "combine_prompts" ->
         combine_prompts(lib, req.categories, SeparatorOrDefault(req.separator))
    [] req.tool = "search_prompts" ->
         search_prompts(lib, req.keyword, req.categories)

(* The same call, with the same arguments, once more. *)
CallAgain ==
  /\ request # NoRequest
  /\ response' = Dispatch(promptLibrary, request)
  /\ UNCHANGED <<promptLibrary, initPc, tools, request>>

(* The result has gone back to the caller; the agent awaits the next call. *)
Return ==
  /\ request # NoRequest
  /\ request' = NoRequest
  /\ response' = NoResponse
  /\ UNCHANGED <<promptLibrary, initPc, tools>>

Next ==
  \/ LoadPrompts
  \/ RegisterTools
  \/ \E keyword \in KeywordInputs, categories \in SearchCategoryInputs :
       CallSearchPrompts(keyword, categories)
  \/ \E categories \in CategoryLists, separator \in SeparatorInputs :
       CallCombinePrompts(categories, separator)
  \/ \E category \in PromptCategory, name \in NameInputs :
       CallGetPrompt(category, name)
  \/ \E category \in PromptCategory : CallGetPromptsByCategory(category)
  \/ CallGetCategories
  \/ CallAgain
  \/ Return

Spec == Init /\ [][Next]_vars

(***************************************************************************)
(* search_prompts over bodies of every length about the length of a        *)
(* snippet.                                                                *)
(***************************************************************************)
BodyLengths == {0, SnippetLength - 1, SnippetLength, SnippetLength + 1, MaxBodyLen}

SnippetKeywordInputs == {keyword \in KeywordInputs : Len(keyword) <= 1}

SnippetCategoryInputs ==
  {Undefined} \cup {JSArray(<<category>>) : category \in PromptCategory}

(* await this.loadPrompts(), the bodies it is given being len[category]
   characters long. *)
LoadPromptsOfLengths(len) ==
  /\ initPc = "constructed"
  /\ promptLibrary' = LibraryOfLengths(len)
  /\ initPc' = "loaded"
  /\ UNCHANGED <<tools, request, response>>

SnippetNext ==
  \/ \E len \in [PromptCategory -> BodyLengths] : LoadPromptsOfLengths(len)
  \/ RegisterTools
  \/ \E keyword \in SnippetKeywordInputs, categories \in SnippetCategoryInputs :
       CallSearchPrompts(keyword, categories)
  \/ CallAgain
  \/ Return

SnippetSpec == Init /\ [][SnippetNext]_vars

(***************************************************************************)
(* Properties.                                                             *)
(***************************************************************************)
ResponseText == response.payload.content[1].text

(* The payload is the JSON text of a result object. *)
IsJson(res) ==
  /\ ~res.rejected
  /\ Len(res.payload.content) = 1
  /\ "json" \in DOMAIN res.payload.content[1].text

JsonOf(res) == res.payload.content[1].text.json

(* category is a key of the catalog; name is a key of that category. *)
Registered(category) == OwnIndex(promptLibrary, category) # {}

PromptsOf(category) ==
  promptLibrary.entries[CHOOSE i \in OwnIndex(promptLibrary, category) : TRUE]
    .value.entries

RegisteredName(category, name) ==
  /\ Registered(category)
  /\ \E i \in 1..Len(PromptsOf(category)) : PromptsOf(category)[i].key = name

(* C1: for a registered category, get_prompts_by_category returns exactly
   the (name, body) pairs registered under it, with count their number, and
   get_prompt of each such name returns the registered body unchanged. *)
C1_ListAndFetchReturnRegisteredPrompts ==
  /\ (request.tool = "get_prompts_by_category" /\ Registered(request.category))
       => /\ IsJson(response)
          /\ JsonOf(response) =
               [category |-> request.category,
                prompts |-> [i \in 1..Len(PromptsOf(request.category)) |->
                               [name |-> PromptsOf(request.category)[i].key,
                                content |->
                                  PromptsOf(request.category)[i].value.value]],
                count |-> Len(PromptsOf(request.category))]
  /\ (request.tool = "get_prompt"
        /\ RegisteredName(request.category, request.name))
       => \E i \in 1..Len(PromptsOf(request.category)) :
            /\ PromptsOf(request.category)[i].key = request.name
            /\ response =
                 Resolved(TextContent(PromptsOf(request.category)[i].value))

C1_Witness ==
  /\ request = [tool |-> "get_prompt", category |-> fe, name |-> accessibility]
  /\ response = Resolved(TextContent(JSString(accessibilityPrompt)))

(* C2: the categories get_categories lists are exactly those for which
   get_prompts_by_category succeeds; for every other category it reports
   category-not-found. *)
ListedCategories ==
  LET listed == JsonOf(get_categories(promptLibrary)).categories
  IN {listed[i] : i \in 1..Len(listed)}

C2_ListedCategoriesAreThoseThatSucceed ==
  /\ request.tool = "get_categories"
       => /\ IsJson(response)
          /\ \A category \in PromptCategory :
               (\E i \in 1..Len(JsonOf(response).categories) :
                   JsonOf(response).categories[i] = category)
                 <=> IsJson(get_prompts_by_category(promptLibrary, category))
  /\ request.tool = "get_prompts_by_category"
       => IF request.category \in ListedCategories
            THEN IsJson(response)
            ELSE response = Resolved(CategoryNotFound(request.category))

C2_Witness ==
  /\ request = [tool |-> "get_prompts_by_category", category |-> common]
  /\ response = Resolved(CategoryNotFound(common))
  /\ ListedCategories = {}

(* C3: get_prompt of a registered category and of a name that is not
   registered in it reports prompt-not-found. *)
C3_UnregisteredNameIsPromptNotFound ==
  (request.tool = "get_prompt"
     /\ Registered(request.category)
     /\ ~RegisteredName(request.category, request.name))
    => response = Resolved(PromptNotFound(request.category, request.name))

(* C4: for two registered, non-empty categories the combined text of
   combine_prompts([C1, C2]) is the combined text of combine_prompts([C1]),
   the separator, and the combined text of combine_prompts([C2]); no
   separator follows the last block. *)
C4_CombineOfTwoIsConcatenation ==
  (/\ request.tool = "combine_prompts"
   /\ Len(request.categories) = 2
   /\ \A i \in 1..2 : /\ Registered(request.categories[i])
                       /\ PromptsOf(request.categories[i]) # <<>>)
    => LET separator == SeparatorOrDefault(request.separator)
           first == combine_prompts(promptLibrary, <<request.categories[1]>>,
                                    separator)
           second == combine_prompts(promptLibrary, <<request.categories[2]>>,
                                     separator)
       IN /\ IsJson(response) /\ IsJson(first) /\ IsJson(second)
          /\ JsonOf(response).combined_prompt =
               JsonOf(first).combined_prompt \o separator
                 \o JsonOf(second).combined_prompt

C4_Witness ==
  /\ request.tool = "combine_prompts"
  /\ request.categories = <<react, fe>>
  /\ request.separator = JSString(<<"|">>)
  /\ IsJson(response)

(* C5: combine_prompts returns the nothing-found result, and no success
   payload, exactly when no prompt block was collected: the list is empty
   or none of its categories is registered with a prompt. *)
NoBlocks(categories) ==
  \A i \in 1..Len(categories) :
    ~Registered(categories[i]) \/ PromptsOf(categories[i]) = <<>>

C5_NothingFoundIffNoBlocks ==
  request.tool = "combine_prompts"
    => IF NoBlocks(request.categories)
         THEN response = Resolved(NothingFound)
         ELSE /\ IsJson(response)
              /\ JsonOf(response).total_prompts > 0
              /\ JsonOf(response).included_prompts # <<>>

C5_Witness ==
  /\ request.tool = "combine_prompts"
  /\ request.categories = <<react, common>>
  /\ ~Registered(react) /\ ~Registered(common)
  /\ response = Resolved(NothingFound)

(* C6: on success combine_prompts lists the included (category, name) pairs
   in the order of the requested categories and, within a category, in
   registration order, once per occurrence of a category; total_prompts is
   the length of that list and categories_processed is the requested
   list. *)
RECURSIVE ExpectedIncluded(_)
ExpectedIncluded(categories) ==
  IF categories = <<>> THEN <<>>
  ELSE (IF Registered(Head(categories))
          THEN [i \in 1..Len(PromptsOf(Head(categories))) |->
                  [category |-> Head(categories),
                   name |-> PromptsOf(Head(categories))[i].key]]
          ELSE <<>>)
       \o ExpectedIncluded(Tail(categories))

C6_IncludedPromptsInRequestOrder ==
  (request.tool = "combine_prompts" /\ IsJson(response))
    => /\ JsonOf(response).included_prompts =
            ExpectedIncluded(request.categories)
       /\ JsonOf(response).total_prompts =
            Len(JsonOf(response).included_prompts)
       /\ JsonOf(response).categories_processed = request.categories

C6_Witness ==
  /\ request.tool = "combine_prompts"
  /\ request.categories = <<fe, fe>>
  /\ IsJson(response)
  /\ JsonOf(response).total_prompts = 4
  /\ JsonOf(response).included_prompts[3] =
       [category |-> fe, name |-> performanceOptimization]

(* C7: search_prompts returns as results exactly the prompts of the searched
   categories whose lower-cased name or body contains the lower-cased
   keyword, total_found being their number; a search that matches nothing
   is a success with no results. *)
SearchedCategories(req) ==
  IF req.categories = Undefined
    THEN {c \in PromptCategory : Registered(c)}
    ELSE {req.categories.items[i] : i \in 1..Len(req.categories.items)}

ContainsKeyword(entry, keyword) ==
  \/ Includes(ToLowerCase(entry.key), ToLowerCase(keyword))
  \/ Includes(ToLowerCase(entry.value.value), ToLowerCase(keyword))

ExpectedMatches(req) ==
  UNION {{<<c, PromptsOf(c)[i].key>> :
            i \in {j \in 1..Len(PromptsOf(c)) :
                     ContainsKeyword(PromptsOf(c)[j], req.keyword)}} :
         c \in {d \in SearchedCategories(req) : Registered(d)}}

C7_SearchReturnsExactlyTheMatches ==
  request.tool = "search_prompts"
    => /\ IsJson(response)
       /\ JsonOf(response).total_found = Len(JsonOf(response).results)
       /\ {<<JsonOf(response).results[i].category,
              JsonOf(response).results[i].name>> :
              i \in 1..Len(JsonOf(response).results)} = ExpectedMatches(request)

(* C8: the relevance of every search result is 10 if the lower-cased
   keyword occurs in the lower-cased name, plus the number of
   non-overlapping case-insensitive occurrences of the keyword, taken as a
   literal string, in the body. *)
LiteralMatchesAt(sub, text, i) ==
  /\ i + Len(sub) - 1 <= Len(text)
  /\ SubSeq(text, i, i + Len(sub) - 1) = sub

RECURSIVE LiteralScan(_, _, _, _, _)
LiteralScan(sub, text, from, to, covered) ==
  IF from > to THEN [count |-> 0, covered |-> covered]
  ELSE IF from = to THEN
    IF covered > 0 THEN [count |-> 0, covered |-> covered - 1]
    ELSE IF LiteralMatchesAt(sub, text, from)
      THEN [count |-> 1, covered |-> Len(sub) - 1]
      ELSE [count |-> 0, covered |-> 0]
  ELSE
    LET mid == (from + to) \div 2
        left == LiteralScan(sub, text, from, mid, covered)
        right == LiteralScan(sub, text, mid + 1, to, left.covered)
    IN [count |-> left.count + right.count, covered |-> right.covered]

LiteralOccurrences(sub, text) == LiteralScan(sub, text, 1, Len(text), 0).count

BodyOf(category, name) ==
  PromptsOf(category)[CHOOSE i \in 1..Len(PromptsOf(category)) :
                        PromptsOf(category)[i].key = name].value.value

C8_RelevanceCountsLiteralOccurrences ==
  (request.tool = "search_prompts" /\ request.keyword # <<>>
     /\ IsJson(response))
    => \A i \in 1..Len(JsonOf(response).results) :
         LET result == JsonOf(response).results[i] IN
         result.relevance =
           (IF Includes(ToLowerCase(result.name), ToLowerCase(request.keyword))
              THEN 10 ELSE 0)
           + LiteralOccurrences(ToLowerCase(request.keyword),
                                ToLowerCase(BodyOf(result.category, result.name)))

C10_CallsLeaveCatalogUnchanged ==
  [][initPc = "ready"
       => /\ promptLibrary' = promptLibrary
          /\ (request # NoRequest /\ request' = request)
               => response' = response]_vars

C10_Witness ==
  /\ initPc = "ready"
  /\ promptLibrary = FullLibrary
  /\ request.tool = "get_prompts_by_category"
  /\ IsJson(response)

(* C11: the results of search_prompts are in order of non-increasing
   relevance, and results of equal relevance are in the order in which they
   were discovered: the order of the searched category list, then the
   order of registration within a category. *)
SearchedCategoryList(req) ==
  IF req.categories = Undefined
    THEN [i \in 1..Len(promptLibrary.entries) |-> promptLibrary.entries[i].key]
    ELSE req.categories.items

DiscoveredMatches(req) ==
  LET Contains(p) ==
        ContainsKeyword([key |-> p.name,
                         value |-> [value |-> BodyOf(p.category, p.name)]],
                        req.keyword)
  IN SelectSeq(ExpectedIncluded(SearchedCategoryList(req)), Contains)

ResultKeys(results) ==
  [i \in 1..Len(results) |->
     [category |-> results[i].category, name |-> results[i].name]]

C11_ResultsByRelevanceTiesInDiscoveryOrder ==
  (request.tool = "search_prompts" /\ IsJson(response))
    => LET results == JsonOf(response).results
           discovered == DiscoveredMatches(request)
       IN /\ \A i, j \in 1..Len(results) :
               i < j => results[i].relevance >= results[j].relevance
          /\ \A k \in 1..Len(results) :
               LET HasRelevance(r) == r.relevance = results[k].relevance
                   FoundWithRelevance(p) ==
                     \E i \in 1..Len(results) :
                       /\ results[i].category = p.category
                       /\ results[i].name = p.name
                       /\ HasRelevance(results[i])
               IN ResultKeys(SelectSeq(results, HasRelevance))
                    = SelectSeq(discovered, FoundWithRelevance)

C11_Witness ==
  /\ request.tool = "search_prompts"
  /\ request.keyword = <<"E", "r">>
  /\ request.categories = Undefined
  /\ IsJson(response)
  /\ ResultKeys(JsonOf(response).results) =
       <<[category |-> fe, name |-> performanceOptimization],
         [category |-> react, name |-> componentCreation],
         [category |-> common, name |-> codeQuality],
         [category |-> react, name |-> stateManagement],
         [category |-> fe, name |-> accessibility]>>
  /\ JsonOf(response).results[2].relevance = JsonOf(response).results[3].relevance
  /\ JsonOf(response).results[4].relevance = JsonOf(response).results[5].relevance

(* C12: the snippet of every search result is the first 200 characters of
   the body followed by the ellipsis when the body is longer than 200
   characters, and the whole body with no ellipsis when the body has 200
   characters or fewer. *)
C12_SnippetIsFirst200WithEllipsisIfLonger ==
  (request.tool = "search_prompts" /\ IsJson(response))
    => \A i \in 1..Len(JsonOf(response).results) :
         LET result == JsonOf(response).results[i]
             body == BodyOf(result.category, result.name)
         IN IF Len(body) > 200
              THEN /\ Len(result.snippet) = 203
                   /\ SubSeq(result.snippet, 1, 200) = SubSeq(body, 1, 200)
                   /\ SubSeq(result.snippet, 201, 203) = <<".", ".", ".">>
              ELSE result.snippet = body

C12_Witness ==
  /\ request.tool = "search_prompts"
  /\ request.keyword = <<>>
  /\ request.categories = Undefined
  /\ IsJson(response)
  /\ Len(JsonOf(response).results) = 5
  /\ \E i, j \in 1..5 :
       LET exact == JsonOf(response).results[i]
           longer == JsonOf(response).results[j]
       IN /\ Len(BodyOf(exact.category, exact.name)) = 200
          /\ exact.snippet = BodyOf(exact.category, exact.name)
          /\ Len(BodyOf(longer.category, longer.name)) = 250
          /\ Len(longer.snippet) = 203
          /\ longer.snippet =
               SubSeq(BodyOf(longer.category, longer.name), 1, 200) \o Ellipsis

(* C13: no call is served on a catalog that is not built: a tool is
   registered, and a call answered, only once loadPrompts has completed;
   from then on the catalog is the full content or the empty mapping, and
   on the empty mapping get_prompts_by_category and get_prompt report
   category-not-found for every category. *)
LoadCompleted == initPc \in {"loaded", "ready"}

C13_NoCallBeforeCatalogIsLoaded ==
  /\ tools # {} => LoadCompleted
  /\ request # NoRequest => LoadCompleted /\ request.tool \in tools
  /\ LoadCompleted => promptLibrary \in {FullLibrary, EmptyLibrary}
  /\ (LoadCompleted /\ promptLibrary = EmptyLibrary)
       => /\ \A category \in PromptCategory :
               /\ get_prompts_by_category(promptLibrary, category)
                    = Resolved(CategoryNotFound(category))
               /\ \A name \in NameInputs :
                    get_prompt(promptLibrary, category, name)
                      = Resolved(CategoryNotFound(category))
          /\ request.tool \in {"get_prompts_by_category", "get_prompt"}
               => response = Resolved(CategoryNotFound(request.category))

C13_Witness ==
  /\ initPc = "ready"
  /\ promptLibrary = EmptyLibrary
  /\ request = [tool |-> "get_prompt", category |-> fe, name |-> accessibility]
  /\ response = Resolved(CategoryNotFound(fe))

=============================================================================
